---- MODULE Spec2Model ----
(***************************************************************************)
(* Token lifecycle manager of the applifting SDK.                          *)
(*                                                                         *)
(* SyncTokenManager (threading.Lock, requests) and AsyncTokenManager       *)
(* (asyncio.Lock, httpx) share one get_access_token algorithm: memory      *)
(* check, cache-file read, refresh POST, cache-file write, all inside one  *)
(* critical section.  The model follows one manager instance used by       *)
(* several callers (threads or tasks), a wall clock, the shared cache file *)
(* and the auth endpoint.                                                  *)
(***************************************************************************)
EXTENDS Integers, FiniteSets, Sequences, TLC

(* ------------------------------ bounds --------------------------------- *)

\* number of get_access_token calls in one behaviour, each made by its own
\* caller (thread or task); all of them may be in progress at once
MaxCalls == 3
\* number of clock advances in one behaviour
MaxTicks == 2

\* operations on one AppliftingSDKClient in a run
MaxOps == 4

(* ------------------------- program constants --------------------------- *)

\* settings.token_expiration_seconds
token_expiration_seconds == 300
\* settings.token_expiration_buffer_seconds
token_expiration_buffer_seconds == 5

(* ------------------------------ values --------------------------------- *)

Callers == 1..MaxCalls

\* value of the lock when no caller holds it
NoHolder == 0

\* Python None for an Optional[str]
None == "None"

\* a JSON value of expires_at that is not a number (string, null, list):
\* arithmetic on it raises TypeError
NotANumber == -1

\* truthiness of an Optional[str]: None and "" are falsy
Truthy(tok) == tok # None /\ tok # ""

\* access tokens the auth endpoint hands out, one per POST
TokenNames == <<"t1", "t2", "t3", "t4", "t5", "t6">>

\* an AuthResponse whose access_token may be null
ServerToken_null(k) == None

\* data.access_token of the answer to the k-th POST
ServerToken(k) == TokenNames[k]

\* clock advances: one second, and the usable lifetime of a fresh token
Deltas == {1, token_expiration_seconds - token_expiration_buffer_seconds}

\* expires_at values found in cache files written by earlier processes
CacheExpiries == {NotANumber, 4, 5, 1000}

\* contents of the cache file.  kind: missing (no file), unreadable (open
\* raises OSError), empty, nonjson (text json cannot parse), notutf8 (bytes
\* the text decoder rejects), nonobject (valid JSON, not a dict), object.
MkFile(kind, keys, tok, exp) ==
    [kind |-> kind, keys |-> keys, access_token |-> tok, expires_at |-> exp]

PlainFile(kind) == MkFile(kind, {}, None, 0)

ObjectFile(keys, tok, exp) ==
    MkFile("object", keys,
           IF "access_token" \in keys THEN tok ELSE None,
           IF "expires_at" \in keys THEN exp ELSE 0)

CacheFiles ==
    {PlainFile(k) : k \in {"missing", "unreadable", "empty", "nonjson",
                           "notutf8", "nonobject"}}
    \cup {ObjectFile({"access_token", "expires_at"}, "cached", e) :
              e \in CacheExpiries}
    \cup {ObjectFile({"expires_at"}, None, e) : e \in CacheExpiries}
    \cup {ObjectFile({"access_token", "expires_at"}, "", 1000),
          ObjectFile({"access_token"}, "cached", 0),
          ObjectFile({}, None, 0)}

\* what another manager instance sharing the cache directory writes to the
\* file after its own refresh at time t
ExternalEntry(t) ==
    MkFile("object", {"access_token", "expires_at"}, "cached",
           t + token_expiration_seconds)

\* outcomes of the refresh POST: a 2xx response whose body is
\* {"access_token": ...}, one whose body also carries "expires_in", a 2xx
\* response whose body AuthResponse rejects, the transport failures and a
\* non-2xx status
Outcomes == {"ok", "ok_expires_in", "bad_body", "connect_timeout",
             "read_timeout", "network_error", "http_error"}

\* the lifetime the endpoint announces in an "expires_in" field
ServerExpiresIn == 60

\* the "expires_in" of the response body, 0 when the body has none
ResponseExpiresIn(o) == IF o = "ok_expires_in" THEN ServerExpiresIn ELSE 0

\* outcomes of open(path, "w") + json.dump
WriteOutcomes == {"ok", "oserror"}

VARIABLES
    refresh_token,      \* self._refresh_token
    access_token,       \* self._access_token
    token_expires_at,   \* self._token_expires_at
    lock,               \* self._lock: NoHolder or the caller inside
    pc,                 \* position of each caller's get_access_token call
    now,                \* time.time()
    cache,              \* contents of token_cache.json
    posts,              \* refresh POSTs issued so far
    ticks,              \* clock advances so far
    ext_writes,         \* history: another instance has written the cache
    own_expires_at,     \* history: expiry the in-memory token came with
    start_valid,        \* history: the cache entry at construction was valid
    contention,         \* history: a call started while the lock was held
    trace,              \* history: what each call in progress has done
    last,               \* history: the call that finished last, its outcome
    returned,           \* history: token values returned so far
    raised,             \* history: some call has raised
    er,                 \* a response or transport failure and what a layer
                        \* makes of it
    rq,                 \* the _request calls of the request layer
    cl,                 \* an AppliftingSDKClient and its underlying client
    writer              \* another instance's _write_token_cache in progress

\* the token manager, the cache file, the clock and the call history
manager == <<refresh_token, access_token, token_expires_at, lock, pc, now,
             cache, posts, ticks, ext_writes, own_expires_at, start_valid,
             contention, trace, last, returned, raised>>

\* the layers above and beside the token manager
layers == <<er, rq, cl, writer>>

vars == <<refresh_token, access_token, token_expires_at, lock, pc, now,
          cache, posts, ticks, ext_writes, own_expires_at, start_valid,
          contention, trace, last, returned, raised, er, rq, cl, writer>>

\* a layer that takes no part in the behaviour
Idle == [stage |-> "idle"]

(* --------------------------- pure functions ---------------------------- *)

\* _is_token_expired with the comparison turned round
IsTokenExpired_inverted(t, expires_at) ==
    t < (expires_at - token_expiration_buffer_seconds)

\* _is_token_expired with >= for >
IsTokenExpired_ge(t, expires_at) ==
    t >= (expires_at - token_expiration_buffer_seconds)

\* _is_token_expired without the safety buffer
IsTokenExpired_nobuffer(t, expires_at) ==
    t > expires_at

\* _is_token_expired, on a numeric expires_at
IsTokenExpired(t, expires_at) ==
    t > (expires_at - token_expiration_buffer_seconds)

\* `tok and not self._is_token_expired()` with self._token_expires_at = e:
\* "hit" when true, "miss" when false, "TypeError" when the subtraction
\* in _is_token_expired raises (only evaluated for a truthy tok)
TokenCheck(tok, e, t) ==
    IF ~Truthy(tok) THEN "miss"
    ELSE IF e = NotANumber THEN "TypeError"
    ELSE IF ~IsTokenExpired(t, e) THEN "hit"
    ELSE "miss"

\* a lock that never blocks
LockAvailable_always == TRUE

\* self._lock can be acquired
LockAvailable == lock = NoHolder

\* _read_token_cache that forgets to load expires_at
ReadTokenCache_keepexp(f, old_expires_at) ==
    CASE f.kind = "notutf8" -> <<"UnicodeDecodeError", None, old_expires_at>>
      [] f.kind = "nonobject" -> <<"AttributeError", None, old_expires_at>>
      [] f.kind = "object" -> <<"ok", f.access_token, old_expires_at>>
      [] OTHER -> <<"ok", None, old_expires_at>>

\* _read_token_cache without json.JSONDecodeError in its except clause
ReadTokenCache_nocatch(f, old_expires_at) ==
    CASE f.kind \in {"missing", "unreadable"} ->
            <<"ok", None, old_expires_at>>
      [] f.kind \in {"empty", "nonjson"} ->
            <<"JSONDecodeError", None, old_expires_at>>
      [] f.kind = "notutf8" -> <<"UnicodeDecodeError", None, old_expires_at>>
      [] f.kind = "nonobject" -> <<"AttributeError", None, old_expires_at>>
      [] OTHER -> <<"ok", f.access_token, f.expires_at>>

\* _read_token_cache: <<status, returned token, new self._token_expires_at>>
\* status "ok" (returns normally) or the name of the exception that escapes
ReadTokenCache(f, old_expires_at) ==
    CASE f.kind = "missing" -> <<"ok", None, old_expires_at>>
      [] f.kind \in {"unreadable", "empty", "nonjson"} ->
            <<"ok", None, old_expires_at>>
      [] f.kind = "notutf8" -> <<"UnicodeDecodeError", None, old_expires_at>>
      [] f.kind = "nonobject" -> <<"AttributeError", None, old_expires_at>>
      [] OTHER -> <<"ok", f.access_token, f.expires_at>>

\* the dump without its expires_at key
WrittenFile_noexp(tok, expires_at) ==
    MkFile("object", {"access_token"}, tok, 0)

\* the entry _write_token_cache dumps
WrittenFile(tok, expires_at) ==
    MkFile("object", {"access_token", "expires_at"}, tok, expires_at)

\* `if not response.ok` left out: an error response is read as a token
RefreshRaises_nostatus(o) == o \notin {"ok", "ok_expires_in", "http_error"}

\* _refresh_token_request raises on every outcome but a 2xx response with
\* a body AuthResponse accepts
RefreshRaises(o) == o \notin {"ok", "ok_expires_in"}

\* the lifetime taken from the response body
NewExpiry_server(t, expires_in) == t + expires_in

\* self._token_expires_at = time.time() + self._expiration_seconds
NewExpiry(t, expires_in) == t + token_expiration_seconds

\* exception a failed refresh POST raises
RefreshError(o) ==
    CASE o = "connect_timeout" -> "AppliftingSDKTimeoutError"
      [] o = "read_timeout" -> "AppliftingSDKTimeoutError"
      [] o = "network_error" -> "AppliftingSDKNetworkError"
      [] o = "http_error" -> "APIError"
      [] OTHER -> "ValidationError"

(* ------------------------------ history -------------------------------- *)

\* the record of a call: the fields as it found them (tok0, exp0), what it
\* found in the cache file, its cache reads, POSTs and cache writes, the outcome of its
\* POST, the path it took (memory, cache, refresh) and how it ended (kind:
\* token or error)
NewTrace ==
    [path |-> "none", reads |-> 0,
     posts |-> 0, writes |-> 0, seen |-> "none", post_id |-> 0,
     outcome |-> "none", tok0 |-> None, exp0 |-> 0, kind |-> "none",
     val |-> None, valid |-> FALSE]

\* what a call found in the cache file: the file's kind, with "partial"
\* for an object that lacks access_token or expires_at
SeenKind(f) ==
    IF f.kind = "object" /\ f.keys # {"access_token", "expires_at"}
    THEN "partial" ELSE f.kind

\* the record of caller c's call: in progress, or just finished
Cur(c) == IF pc[c] = "done" THEN last ELSE trace[c]

\* the check of the refresh token left out
HasRefreshToken_always == TRUE

\* `if not self._refresh_token` is false
HasRefreshToken == Truthy(refresh_token)

(* ------------------------------- init ---------------------------------- *)

\* __init__: no token in memory, expiry 0, lock free; the cache file is
\* whatever earlier processes left at the fixed path
InitManager ==
    /\ refresh_token \in {None, "", "rt"}
    /\ access_token = None
    /\ token_expires_at = 0
    /\ lock = NoHolder
    /\ pc = [c \in Callers |-> "new"]
    /\ now = 0
    /\ cache \in CacheFiles
    /\ posts = 0
    /\ ticks = 0
    /\ ext_writes = FALSE
    /\ own_expires_at = 0
    /\ start_valid = (cache.kind = "object"
                      /\ TokenCheck(cache.access_token, cache.expires_at,
                                    now) = "hit")
    /\ contention = FALSE
    /\ trace = [c \in Callers |-> NewTrace]
    /\ last = NewTrace
    /\ returned = {}
    /\ raised = FALSE

\* a token manager on its own: nothing above it is exercised
Init == InitManager /\ er = Idle /\ rq = Idle /\ cl = Idle /\ writer = Idle

(* ------------------------- leaving the call ---------------------------- *)

\* `return self._access_token` inside `with self._lock`: the lock is
\* released on the way out.  own is the expiry the token came with.
Return(c, tok, own, tr) ==
    /\ last' = [tr EXCEPT !.kind = "token", !.val = tok,
                          !.valid = ~IsTokenExpired(now, own)]
    /\ returned' = returned \cup {tok}
    /\ pc' = [pc EXCEPT ![c] = "done"]
    /\ lock' = NoHolder
    /\ trace' = [trace EXCEPT ![c] = NewTrace]
    /\ UNCHANGED raised

\* the lock taken with acquire() and released only before `return`
Raise_nolock(c, err, tr) ==
    /\ last' = [tr EXCEPT !.kind = "error", !.val = err]
    /\ raised' = TRUE
    /\ pc' = [pc EXCEPT ![c] = "done"]
    /\ trace' = [trace EXCEPT ![c] = NewTrace]
    /\ UNCHANGED <<lock, returned>>

\* a retry loop around the critical section: on an exception the call
\* starts over instead of raising
Raise_retry(c, err, tr) ==
    /\ pc' = [pc EXCEPT ![c] = "locked"]
    /\ trace' = [trace EXCEPT ![c] = tr]
    /\ UNCHANGED <<lock, last, returned, raised>>

\* an exception leaves `with self._lock`: the lock is released
Raise(c, err, tr) ==
    /\ last' = [tr EXCEPT !.kind = "error", !.val = err]
    /\ raised' = TRUE
    /\ pc' = [pc EXCEPT ![c] = "done"]
    /\ lock' = NoHolder
    /\ trace' = [trace EXCEPT ![c] = NewTrace]
    /\ UNCHANGED returned

\* the call goes on to its next step
Goto(c, label, tr) ==
    /\ pc' = [pc EXCEPT ![c] = label]
    /\ trace' = [trace EXCEPT ![c] = tr]
    /\ UNCHANGED <<lock, last, returned, raised>>

(* ------------------------------ actions -------------------------------- *)

\* a caller enters get_access_token and waits for the lock; calls are
\* numbered in the order they start
Call(c) ==
    /\ pc[c] = "new"
    /\ \A d \in Callers : d < c => pc[d] # "new"
    /\ pc' = [pc EXCEPT ![c] = "waiting"]
    /\ trace' = [trace EXCEPT ![c] = NewTrace]
    /\ contention' = (contention \/ lock # NoHolder)
    /\ UNCHANGED <<refresh_token, access_token, token_expires_at, lock, now,
                   cache, posts, ticks, ext_writes, own_expires_at,
                   start_valid, last, returned, raised>>
    /\ UNCHANGED layers

\* `with self._lock:` / `async with self._lock:`
Acquire(c) ==
    /\ pc[c] = "waiting"
    /\ LockAvailable
    /\ lock' = c
    /\ pc' = [pc EXCEPT ![c] = "locked"]
    /\ UNCHANGED <<refresh_token, access_token, token_expires_at, now,
                   cache, posts, ticks, ext_writes, own_expires_at,
                   start_valid, contention, trace, last, returned,
                   raised>>
    /\ UNCHANGED layers

\* the critical section up to the network call, which is its only
\* suspension point: memory check, cache read, start of the refresh
Enter(c) ==
    /\ pc[c] = "locked"
    /\ LET m == TokenCheck(access_token, token_expires_at, now)
           r == ReadTokenCache(cache, token_expires_at)
           k == TokenCheck(r[2], r[3], now)
           tr0 == [trace[c] EXCEPT !.tok0 = access_token,
                                   !.exp0 = token_expires_at]
           tr == [tr0 EXCEPT !.reads = @ + 1, !.seen = SeenKind(cache)]
       IN CASE m = "hit" ->
                 \* return self._access_token
                 /\ Return(c, access_token, own_expires_at,
                           [tr0 EXCEPT !.path = "memory"])
                 /\ UNCHANGED <<access_token, token_expires_at,
                                own_expires_at, posts>>
            [] m = "TypeError" ->
                 /\ Raise(c, "TypeError", tr0)
                 /\ UNCHANGED <<access_token, token_expires_at,
                                own_expires_at, posts>>
            [] m = "miss" /\ r[1] # "ok" ->
                 \* _read_token_cache lets the exception through
                 /\ Raise(c, r[1], tr)
                 /\ UNCHANGED <<access_token, token_expires_at,
                                own_expires_at, posts>>
            [] m = "miss" /\ r[1] = "ok" /\ k = "hit" ->
                 \* self._access_token = cached_token; return it
                 /\ token_expires_at' = r[3]
                 /\ access_token' = r[2]
                 /\ own_expires_at' = r[3]
                 /\ Return(c, r[2], r[3], [tr EXCEPT !.path = "cache"])
                 /\ UNCHANGED posts
            [] m = "miss" /\ r[1] = "ok" /\ k = "TypeError" ->
                 /\ token_expires_at' = r[3]
                 /\ Raise(c, "TypeError", tr)
                 /\ UNCHANGED <<access_token, own_expires_at, posts>>
            [] OTHER ->
                 \* self._refresh_token_request()
                 /\ token_expires_at' = r[3]
                 /\ UNCHANGED <<access_token, own_expires_at>>
                 /\ IF ~HasRefreshToken
                    THEN /\ Raise(c, "AppliftingSDKError", tr)
                         /\ UNCHANGED posts
                    ELSE /\ posts' = posts + 1
                         /\ Goto(c, "post",
                                 [tr EXCEPT !.posts = @ + 1,
                                            !.post_id = posts + 1])
    /\ UNCHANGED <<refresh_token, now, cache, ticks, ext_writes,
                   start_valid, contention>>
    /\ UNCHANGED layers

\* the cache file written before the fields are assigned: a failed write
\* leaves the manager without the refreshed token
RefreshComplete_writefirst(c, o, w) ==
    /\ pc[c] = "post"
    /\ IF ~RefreshRaises(o) /\ w = "ok"
         THEN LET tok == ServerToken(trace[c].post_id)
                  exp == NewExpiry(now, ResponseExpiresIn(o))
                  tr == [trace[c] EXCEPT !.outcome = o, !.path = "refresh",
                                         !.writes = @ + 1]
              IN /\ access_token' = tok
                 /\ token_expires_at' = exp
                 /\ own_expires_at' = exp
                 /\ cache' = WrittenFile(tok, exp)
                 /\ Return(c, tok, exp, tr)
         ELSE /\ Raise(c, IF RefreshRaises(o) THEN RefreshError(o)
                                              ELSE "OSError",
                       [trace[c] EXCEPT !.outcome = o])
              /\ RefreshRaises(o) => w = "ok"
              /\ UNCHANGED <<access_token, token_expires_at, own_expires_at,
                             cache>>
    /\ UNCHANGED <<refresh_token, now, posts, ticks, ext_writes,
                   start_valid, contention>>
    /\ UNCHANGED layers

\* the POST completes: on 2xx with a valid body the token and its expiry
\* are stored, the cache file is written and the token returned; every
\* other outcome raises and leaves the fields alone
RefreshComplete(c, o, w) ==
    /\ pc[c] = "post"
    /\ IF ~RefreshRaises(o)
         THEN LET tok == ServerToken(trace[c].post_id)
                  exp == NewExpiry(now, ResponseExpiresIn(o))
                  tr == [trace[c] EXCEPT !.outcome = o, !.path = "refresh",
                                         !.writes = @ + 1]
              IN /\ access_token' = tok
                 /\ token_expires_at' = exp
                 /\ own_expires_at' = exp
                 /\ IF w = "ok"
                    THEN /\ cache' = WrittenFile(tok, exp)
                         /\ Return(c, tok, exp, tr)
                    ELSE /\ UNCHANGED cache
                         /\ Raise(c, "OSError", tr)
         ELSE /\ w = "ok"
              /\ Raise(c, RefreshError(o), [trace[c] EXCEPT !.outcome = o])
              /\ UNCHANGED <<access_token, token_expires_at, own_expires_at,
                             cache>>
    /\ UNCHANGED <<refresh_token, now, posts, ticks, ext_writes,
                   start_valid, contention>>
    /\ UNCHANGED layers

\* time.time() moves on
Tick(d) ==
    /\ ticks < MaxTicks
    /\ now' = now + d
    /\ ticks' = ticks + 1
    /\ UNCHANGED <<refresh_token, access_token, token_expires_at, lock, pc,
                   cache, posts, ext_writes, own_expires_at, start_valid,
                   contention,
                   trace, last, returned, raised>>
    /\ UNCHANGED layers

\* another manager instance sharing the cache directory writes the file
ExternalWrite ==
    /\ cache # ExternalEntry(now)
    /\ cache' = ExternalEntry(now)
    /\ ext_writes' = TRUE
    /\ UNCHANGED <<refresh_token, access_token, token_expires_at, lock, pc,
                   now, posts, ticks, own_expires_at, start_valid,
                   contention, trace,
                   last, returned, raised>>
    /\ UNCHANGED layers

Next ==
    \/ \E c \in Callers : Call(c)
    \/ \E c \in Callers : Acquire(c)
    \/ \E c \in Callers : Enter(c)
    \/ \E c \in Callers, o \in Outcomes, w \in WriteOutcomes :
            RefreshComplete(c, o, w)
    \/ \E d \in Deltas : Tick(d)

\* one manager instance, its callers, the clock and the auth endpoint
Spec == Init /\ [][Next]_vars

\* the same, with other instances writing the shared cache file
NextShared ==
    \/ Next
    \/ ExternalWrite

SpecShared == Init /\ [][NextShared]_vars

(* ------------------------------ claims --------------------------------- *)

\* the caller's step through the critical section up to the network call
EnterStep(c) == pc[c] = "locked" /\ pc'[c] # "locked"

\* the step in which caller c's call returns or raises
FinishStep(c) == pc[c] # "done" /\ pc'[c] = "done"

\* the in-memory token is there and its expiry is a number
HasMemoryToken == Truthy(access_token) /\ token_expires_at # NotANumber

\* the cache file holds a complete entry with a usable token string
HasCacheEntry ==
    /\ cache.kind = "object"
    /\ cache.keys = {"access_token", "expires_at"}
    /\ Truthy(cache.access_token)
    /\ cache.expires_at # NotANumber

\* every caller's call has returned a token
AllReturned == (\A c \in Callers : pc[c] = "done") /\ ~raised

\* the first token issued is still usable
WithinFirstLifetime ==
    now <= token_expiration_seconds - token_expiration_buffer_seconds

C2_AtMostOneInFlight ==
    Cardinality({c \in Callers : pc[c] = "post"}) <= 1

C2_Witness ==
    \E c, d \in Callers :
        pc[c] = "post" /\ pc[d] = "waiting" /\ lock = c /\ ticks > 0

\* C3: every token get_access_token returns is still usable, by the expiry
\* it was issued or cached with, at the time of the return.
C3_ReturnedTokenValid ==
    last.kind = "token" => last.valid

\* C4: fast path.  A call that finds an in-memory token with
\* expires_at > now + buffer returns that token, issues no POST, does not
\* read the cache file and leaves access_token, expires_at and the cache
\* file unchanged.
C4_FastPath ==
    [][\A c \in Callers :
          (EnterStep(c) /\ HasMemoryToken
             /\ token_expires_at > now + token_expiration_buffer_seconds)
          => /\ pc'[c] = "done"
             /\ last'.kind = "token" /\ last'.val = access_token
             /\ posts' = posts
             /\ last'.reads = 0 /\ last'.posts = 0 /\ last'.writes = 0
             /\ access_token' = access_token
             /\ token_expires_at' = token_expires_at
             /\ cache' = cache]_vars

\* the first call refreshed and two more calls took the fast path
C4_Witness ==
    /\ Cardinality({c \in Callers : pc[c] = "done"}) >= 3
    /\ ~raised /\ ~start_valid /\ posts = 1
    /\ last.path = "memory" /\ last.reads = 0
    /\ last.kind = "token" /\ last.val = access_token
    /\ token_expires_at > now + token_expiration_buffer_seconds

\* C5 as stated: the in-memory token is used (not expired) if and only if
\* now < expires_at - buffer_seconds.
C5_UsableIffStrictlyBefore ==
    [][\A c \in Callers :
          (EnterStep(c) /\ HasMemoryToken)
          => ((Cur(c)'.path = "memory")
                <=> (now < token_expires_at
                             - token_expiration_buffer_seconds))]_vars

\* C5 (amended): the token is used (_is_token_expired returns false) if and
\* only if now <= expires_at - buffer_seconds; at the exact boundary
\* now = expires_at - buffer_seconds the token is still usable.
C5_UsableIffNotAfter ==
    [][\A c \in Callers :
          (EnterStep(c) /\ HasMemoryToken)
          => ((Cur(c)'.path = "memory")
                <=> (now <= token_expires_at
                              - token_expiration_buffer_seconds))]_vars

\* a call returned the in-memory token at the exact boundary
C5_Witness ==
    /\ last.path = "memory" /\ last.kind = "token"
    /\ last.exp0 = token_expires_at
    /\ now = token_expires_at - token_expiration_buffer_seconds

\* C6: buffer boundary.  A token (in memory or in the cache file) whose
\* expires_at is strictly less than now + buffer_seconds is treated as
\* expired: an in-memory one sends the call on to the cache read, a cached
\* one is not adopted.  One whose expires_at is strictly greater than
\* now + buffer_seconds is treated as valid and returned.
C6_BufferBoundary ==
    [][\A c \in Callers :
          /\ (EnterStep(c) /\ HasMemoryToken
                /\ token_expires_at < now + token_expiration_buffer_seconds)
             => (Cur(c)'.reads = 1 /\ Cur(c)'.path # "memory")
          /\ (EnterStep(c) /\ HasMemoryToken
                /\ token_expires_at > now + token_expiration_buffer_seconds)
             => (Cur(c)'.path = "memory" /\ Cur(c)'.val = access_token)
          /\ (EnterStep(c) /\ Cur(c)'.reads = 1 /\ HasCacheEntry
                /\ cache.expires_at < now + token_expiration_buffer_seconds)
             => Cur(c)'.path # "cache"
          /\ (EnterStep(c) /\ Cur(c)'.reads = 1 /\ HasCacheEntry
                /\ cache.expires_at > now + token_expiration_buffer_seconds)
             => (Cur(c)'.path = "cache"
                 /\ Cur(c)'.val = cache.access_token)]_vars

\* a call found the in-memory token inside the buffer zone, before its
\* nominal expiry, and went on to the cache and the refresh
C6_Witness ==
    \E c \in Callers :
        /\ pc[c] = "post" /\ trace[c].reads = 1
        /\ Truthy(trace[c].tok0)
        /\ now < trace[c].exp0
        /\ trace[c].exp0 < now + token_expiration_buffer_seconds

\* C7: cache fallback.  A call that finds no usable token in memory and a
\* cache entry whose expires_at is outside the buffer returns the cached
\* access_token, adopts the cached token and its expires_at into memory,
\* issues no POST and does not write the cache file.
C7_CacheFallback ==
    [][\A c \in Callers :
          (EnterStep(c)
             /\ TokenCheck(access_token, token_expires_at, now) = "miss"
             /\ HasCacheEntry
             /\ cache.expires_at > now + token_expiration_buffer_seconds)
          => /\ pc'[c] = "done"
             /\ last'.kind = "token"
             /\ last'.val = cache.access_token
             /\ access_token' = cache.access_token
             /\ token_expires_at' = cache.expires_at
             /\ posts' = posts /\ last'.posts = 0
             /\ last'.writes = 0
             /\ cache' = cache]_vars

\* a call replaced an expired in-memory token by the cached one
C7_Witness ==
    /\ last.path = "cache"
    /\ Truthy(last.tok0) /\ last.tok0 # access_token
    /\ last.kind = "token" /\ last.val = cache.access_token
    /\ access_token = cache.access_token
    /\ token_expires_at = cache.expires_at
    /\ last.posts = 0

\* exceptions that come from reading or interpreting the cache file
CacheErrors ==
    {"JSONDecodeError", "UnicodeDecodeError", "AttributeError", "TypeError"}

\* C8: corrupt cache recovers.  A call that finds non-JSON text in the cache
\* file never ends in a parse error; with a refresh token configured it
\* issues exactly one refresh POST, and when it returns, it returns the
\* token of that POST.
C8_CorruptCacheRecovers ==
    \A r \in {last} \cup {trace[c] : c \in Callers} :
        r.seen = "nonjson"
        => /\ r.kind = "error" => r.val \notin CacheErrors
           /\ Truthy(refresh_token) => r.posts = 1
           /\ r.kind = "token"
              => /\ r.path = "refresh"
                 /\ r.posts = 1
                 /\ r.val = ServerToken(r.post_id)

C8_Witness ==
    /\ last.seen = "nonjson"
    /\ last.kind = "token" /\ last.posts = 1
    /\ access_token = last.val

\* C9: fail-soft cache read.  Whatever the cache file holds, no exception
\* that comes from reading or interpreting it reaches the caller of
\* get_access_token.
C9_CacheReadNeverRaises ==
    last.kind = "error" => last.val \notin CacheErrors

\* C10: a cache entry that lacks access_token or expires_at has no effect on
\* the in-memory fields: a call that found one and ended in a refresh
\* failure leaves access_token and expires_at as they were when it entered.
C10_PartialEntryNoEffect ==
    [][\A c \in Callers :
          (FinishStep(c) /\ last'.kind = "error" /\ last'.val # "OSError"
             /\ last'.seen = "partial")
          => (access_token' = last'.tok0
              /\ token_expires_at' = last'.exp0)]_vars

\* exceptions of a refresh that did not yield a token: no refresh token
\* configured, a connect or read timeout, a network error, a non-2xx status
RefreshFailures ==
    {"AppliftingSDKError", "AppliftingSDKTimeoutError",
     "AppliftingSDKNetworkError", "APIError"}

\* C11: no partial mutation on failure.  When a call ends in a refresh
\* failure, access_token and expires_at are what they were when the call
\* entered the critical section, and refresh_token is unchanged.
C11_NoPartialMutation ==
    [][\A c \in Callers :
          (FinishStep(c) /\ last'.kind = "error"
             /\ last'.val \in RefreshFailures)
          => /\ access_token' = last'.tok0
             /\ token_expires_at' = last'.exp0
             /\ refresh_token' = refresh_token]_vars

\* a refresh is needed: the in-memory token is missing or past the buffer,
\* and the cache file is missing, unreadable, not JSON, or an object whose
\* token is missing or past the buffer
RefreshNeeded ==
    /\ \/ ~Truthy(access_token)
       \/ /\ token_expires_at # NotANumber
          /\ now > token_expires_at - token_expiration_buffer_seconds
    /\ \/ cache.kind \in {"missing", "unreadable", "empty", "nonjson"}
       \/ /\ cache.kind = "object"
          /\ \/ ~Truthy(cache.access_token)
             \/ /\ cache.expires_at # NotANumber
                /\ now > cache.expires_at
                           - token_expiration_buffer_seconds

\* C12: missing refresh token.  When refresh_token is None or empty and a
\* refresh is needed, the call raises AppliftingSDKError, no POST is issued
\* (by this call or ever), and access_token is left as it was: None stays
\* None.
C12_MissingRefreshToken ==
    [][\A c \in Callers :
          (EnterStep(c) /\ RefreshNeeded /\ ~Truthy(refresh_token))
          => /\ pc'[c] = "done"
             /\ last'.kind = "error" /\ last'.val = "AppliftingSDKError"
             /\ last'.posts = 0 /\ posts' = 0
             /\ access_token' = access_token
             /\ access_token = None => access_token' = None]_vars

\* a manager built with refresh_token None raised the error and a second
\* call did so again
C12_Witness ==
    /\ refresh_token = None
    /\ last.kind = "error" /\ last.val = "AppliftingSDKError"
    /\ Cardinality({c \in Callers : pc[c] = "done"}) = 2
    /\ access_token = None /\ posts = 0

\* outcomes of a refresh POST that did not yield a token
FailedOutcomes ==
    {"bad_body", "connect_timeout", "read_timeout", "network_error",
     "http_error"}

Inside(c) == pc[c] \in {"locked", "post"}

\* C14: lock release on every exit path.  The lock is held only by a caller
\* that is executing inside get_access_token: a call that has returned or
\* raised no longer holds it, and when no call is inside the lock is free
\* for the next caller.
C14_LockReleased ==
    /\ lock # NoHolder => Inside(lock)
    /\ \A c \in Callers : Inside(c) => lock = c
    /\ (\A c \in Callers : ~Inside(c)) => lock = NoHolder

\* a call left by the cache write error and a later call took the lock
C14_Witness ==
    \E c \in Callers :
        /\ lock = c /\ pc[c] = "locked"
        /\ last.kind = "error" /\ last.val = "OSError"

\* C15: no automatic retry.  A single call issues at most one refresh POST,
\* whatever its outcome; so there are never more POSTs than calls that got
\* as far as the refresh.
C15_NoRetry ==
    /\ \A r \in {last} \cup {trace[c] : c \in Callers} : r.posts <= 1
    /\ posts <= Cardinality({c \in Callers : pc[c] \in {"post", "done"}})

\* a call's POST timed out, the call raised, and it had sent one POST
C15_Witness ==
    /\ last.outcome = "connect_timeout"
    /\ last.kind = "error" /\ last.val = "AppliftingSDKTimeoutError"
    /\ last.posts = 1 /\ posts = 1

\* C16: on a 2xx refresh, expires_at becomes now + token_expiration_seconds
\* from the configuration, whether or not the response body carries an
\* expires_in, and access_token becomes the access_token of the response.
C16_ExpiryFromConfig ==
    [][\A c \in Callers :
          (FinishStep(c) /\ last'.outcome \in {"ok", "ok_expires_in"})
          => /\ token_expires_at' = now + token_expiration_seconds
             /\ access_token' = ServerToken(last'.post_id)]_vars

\* a refresh at a later time whose response announced its own lifetime
C16_Witness ==
    /\ last.outcome = "ok_expires_in" /\ last.kind = "token"
    /\ now > 0
    /\ token_expires_at = now + token_expiration_seconds
    /\ token_expires_at # now + ServerExpiresIn
    /\ access_token = last.val

\* the in-memory token came from a refresh of this manager, at time
\* own_expires_at - token_expiration_seconds
FromRefresh ==
    access_token \in {ServerToken(k) : k \in 1..Len(TokenNames)}

\* no call has finished since the refresh other than calls that returned
\* the token while it was usable
NoCallSinceExpiry ==
    \/ last.path = "refresh" /\ last.outcome \in {"ok", "ok_expires_in"}
    \/ last.path = "memory" /\ last.kind = "token" /\ last.valid

\* C17: expiry-driven cadence.  With a single manager and no other cache
\* writer, after a successful refresh at time t every call made while
\* now < t + token_expiration_seconds - buffer returns the same token with
\* no POST, and the first call made after that point issues exactly one
\* POST.
C17_Cadence ==
    [][\A c \in Callers :
          /\ (EnterStep(c) /\ FromRefresh
                /\ now < own_expires_at - token_expiration_buffer_seconds)
             => /\ pc'[c] = "done"
                /\ last'.kind = "token" /\ last'.val = access_token
                /\ access_token' = access_token
                /\ last'.posts = 0 /\ posts' = posts
          /\ (EnterStep(c) /\ FromRefresh /\ NoCallSinceExpiry
                /\ now > own_expires_at - token_expiration_buffer_seconds)
             => /\ pc'[c] = "post"
                /\ trace'[c].posts = 1 /\ posts' = posts + 1]_vars

\* the first call refreshed, the second got the same token without a POST,
\* and the third, after the lifetime, refreshed again
C17_Witness ==
    /\ AllReturned /\ ~start_valid
    /\ posts = 2 /\ returned = {ServerToken(1), ServerToken(2)}
    /\ last.path = "refresh" /\ last.tok0 = ServerToken(1)
    /\ last.val = ServerToken(2) /\ access_token = ServerToken(2)
    /\ now > token_expiration_seconds - token_expiration_buffer_seconds

\* the cache file holds exactly the in-memory token and expiry of the next
\* state
CacheMirrorsMemory ==
    cache' = [kind |-> "object", keys |-> {"access_token", "expires_at"},
              access_token |-> access_token',
              expires_at |-> token_expires_at']

\* C18: persist after refresh.  Whenever a call returns a token it got by
\* refresh, the cache file has been written in the same critical section,
\* with the lock still held by that call, and the entry equals the
\* in-memory access_token and expires_at.
C18_PersistAfterRefresh ==
    [][\A c \in Callers :
          (FinishStep(c) /\ last'.path = "refresh" /\ last'.kind = "token")
          => /\ lock = c
             /\ last'.writes = 1
             /\ last'.val = access_token'
             /\ CacheMirrorsMemory]_vars

\* a second refresh replaced the entry the first one had written
C18_Witness ==
    /\ last.path = "refresh" /\ last.kind = "token"
    /\ last.seen = "object" /\ posts = 2
    /\ last.val = ServerToken(2)
    /\ cache.access_token = ServerToken(2)
    /\ cache.expires_at = token_expires_at
    /\ cache.expires_at = now + token_expiration_seconds

\* token values and expiries handed to _write_token_cache directly
RoundTripTokens == {None, "", "cached"} \cup {ServerToken(k) : k \in 1..3}
RoundTripExpiries ==
    {0, 4, token_expiration_seconds, token_expiration_seconds + 296,
     NotANumber}

C20_WriteFailureSwallowed ==
    last.outcome \in {"ok", "ok_expires_in"}
    => (last.kind = "token" /\ last.val = ServerToken(last.post_id))

\* the call that just finished was left by the cache write error
AfterWriteFailure == last.kind = "error" /\ last.val = "OSError"

\* C21: a failed cache write does not lose the refreshed token.  The call
\* whose cache write fails after a successful refresh leaves the refreshed
\* token and its expiry in memory and the cache file as it was; the next call
\* made before that expiry returns the token from memory, with no POST and
\* without reading the cache file.
C21_WriteFailureKeepsToken ==
    [][\A c \in Callers :
        /\ (FinishStep(c) /\ last'.kind = "error" /\ last'.val = "OSError")
           => /\ access_token' = ServerToken(trace[c].post_id)
              /\ token_expires_at' = now + token_expiration_seconds
              /\ cache' = cache
        /\ (EnterStep(c) /\ AfterWriteFailure
              /\ ~IsTokenExpired(now, token_expires_at))
           => /\ pc'[c] = "done"
              /\ last'.kind = "token" /\ last'.val = access_token
              /\ last'.path = "memory" /\ last'.reads = 0
              /\ posts' = posts
              /\ UNCHANGED <<access_token, token_expires_at, cache>>]_vars

\* the one refresh of the run lost its cache write, and a later call got the
\* refreshed token from memory
C21_Witness ==
    /\ posts = 1 /\ raised /\ returned = {ServerToken(1)}
    /\ last.kind = "token" /\ last.path = "memory"
    /\ last.val = ServerToken(1) /\ access_token = ServerToken(1)
    /\ cache.access_token # ServerToken(1)

(* ---------------------- responses and their errors --------------------- *)

\* the places that turn a response or a transport failure into an outcome:
\* the three token managers (requests, httpx with ErrorHandler, httpx with
\* its own status chain) and the two base clients
RefreshLayers ==
    {"SyncTokenManager", "AsyncTokenManager", "AsyncTokenManager_inline"}

RequestLayers == {"SyncBaseClient", "AsyncBaseClient"}

Layers == RefreshLayers \cup RequestLayers

\* the layers that call ErrorHandler.raise_api_error
HandlerLayers == {"SyncTokenManager", "AsyncTokenManager", "SyncBaseClient"}

\* the HTTP library a layer sends with
Library(layer) ==
    IF layer \in {"SyncTokenManager", "SyncBaseClient"} THEN "requests"
    ELSE "httpx"

\* final status codes: 2xx, 3xx that no library follows, the mapped 4xx, an
\* unmapped 4xx, and 5xx up to the end of the range
Statuses ==
    {200, 201, 300, 304, 400, 401, 403, 404, 409, 418, 422, 429, 500, 503,
     599}

\* one entry of a validation error body
ValidItem ==
    [loc |-> <<"body", "price">>, msg |-> "field required", type |-> "missing"]

\* an entry without its `type`
BadItem == [loc |-> <<"body", "price">>, msg |-> "field required"]

\* what response.json() gives: type "text" when the body is not JSON.  An
\* object has or has not a `detail` key, whose value is or is not a list,
\* and an `access_token` key
MkJson(type, has_detail, is_list, detail, tok) ==
    [type |-> type, has_detail |-> has_detail, detail_is_list |-> is_list,
     detail |-> detail, access_token |-> tok]

JsonBodies ==
    { MkJson("text", FALSE, FALSE, <<>>, None),
      MkJson("array", FALSE, FALSE, <<>>, None),
      MkJson("object", TRUE, TRUE, <<ValidItem>>, None),
      MkJson("object", TRUE, TRUE, <<>>, None),
      MkJson("object", TRUE, TRUE, <<BadItem>>, None),
      MkJson("object", TRUE, FALSE, <<>>, None),
      MkJson("object", FALSE, FALSE, <<>>, None),
      MkJson("object", FALSE, FALSE, <<>>, "t1") }

\* a response body and whether Content-Type says application/json
Bodies == [json : JsonBodies, ctype_json : BOOLEAN]

\* the exceptions the send can raise, by the library's own class
TransportFailures(lib) ==
    IF lib = "httpx"
    THEN {"ConnectTimeout", "ReadTimeout", "WriteTimeout", "PoolTimeout",
          "ConnectError", "ReadError", "RemoteProtocolError"}
    ELSE {"ConnectTimeout", "ReadTimeout", "ConnectionError", "SSLError",
          "ChunkedEncodingError"}

\* the failures that are timeouts: subclasses of httpx.TimeoutException or
\* of requests.Timeout
IsTimeout(exc) ==
    exc \in {"ConnectTimeout", "ReadTimeout", "WriteTimeout", "PoolTimeout"}

\* an outcome: what is raised (or "return"), the status code the error
\* carries and its details
NoDetails == [kind |-> "None", detail |-> <<>>]

MkOutcome(kind, status_code, details) ==
    [kind |-> kind, status_code |-> status_code, details |-> details]

\* ErrorHandler.__init__: the status mappings
status_mappings ==
    [s \in {400, 401, 403, 404, 409, 422, 429} |->
        CASE s = 400 -> "BadRequestError"
          [] s = 401 -> "AuthenticationError"
          [] s = 403 -> "PermissionDenied"
          [] s = 404 -> "NotFoundError"
          [] s = 409 -> "ConflictError"
          [] s = 422 -> "ValidationFailed"
          [] s = 429 -> "RateLimitError"]

\* ErrorHandler.parse_error_content: the payload is the JSON body only under
\* a JSON content type and only when it is an object
HasPayload(body) == body.ctype_json /\ body.json.type = "object"

\* HTTPValidationError(**payload) for an object: `detail` defaults to the
\* empty list and must be a list of entries with loc, msg and type
ValidationShape(json) ==
    \/ ~json.has_detail
    \/ /\ json.detail_is_list
       /\ \A i \in 1..Len(json.detail) :
             DOMAIN json.detail[i] = {"loc", "msg", "type"}

ValidationDetails(json) ==
    [kind |-> "HTTPValidationError",
     detail |-> IF json.has_detail THEN json.detail ELSE <<>>]

\* the details a non-422 error carries
PayloadDetails(given) ==
    IF given THEN [kind |-> "payload", detail |-> <<>>] ELSE NoDetails

\* ErrorHandler._create_validation_error
create_validation_error(status, body) ==
    MkOutcome("ValidationFailed", status,
              IF HasPayload(body) /\ ValidationShape(body.json)
              THEN ValidationDetails(body.json)
              ELSE NoDetails)

\* ErrorHandler.raise_api_error
raise_api_error(status, body) ==
    IF status = 422 THEN create_validation_error(status, body)
    ELSE MkOutcome(IF status \in DOMAIN status_mappings
                   THEN status_mappings[status]
                   ELSE IF 500 <= status /\ status < 600 THEN "ServerError"
                   ELSE "APIError",
                   status, PayloadDetails(HasPayload(body)))

\* the if/elif chains of AsyncBaseClient._request and of the token manager
\* with its own mapping: the payload is whatever response.json() gives, and
\* at 422 HTTPValidationError(**payload) is not guarded.  Only the token
\* manager's chain has a 400 branch.
InlineRaise(layer, status, body) ==
    LET json == body.json
        given == json.type # "text"
        det == PayloadDetails(given)
    IN CASE status = 400 /\ layer = "AsyncTokenManager_inline" ->
              MkOutcome("BadRequestError", status, det)
         [] status = 401 -> MkOutcome("AuthenticationError", status, det)
         [] status = 403 -> MkOutcome("PermissionDenied", status, det)
         [] status = 404 -> MkOutcome("NotFoundError", status, det)
         [] status = 409 -> MkOutcome("ConflictError", status, det)
         [] status = 422 ->
              IF ~given
              THEN MkOutcome("ValidationFailed", status, NoDetails)
              ELSE IF json.type # "object"
              THEN MkOutcome("TypeError", NotANumber, NoDetails)
              ELSE IF ~ValidationShape(json)
              THEN MkOutcome("pydantic.ValidationError", NotANumber,
                             NoDetails)
              ELSE MkOutcome("ValidationFailed", status,
                             ValidationDetails(json))
         [] status = 429 -> MkOutcome("RateLimitError", status, det)
         [] 500 <= status /\ status < 600 ->
              MkOutcome("ServerError", status, det)
         [] OTHER -> MkOutcome("APIError", status, det)

\* the test that lets a response through: `response.ok` of requests is
\* true below 400, `is_success` of httpx and the explicit range are 2xx
Passes(layer, status) ==
    IF Library(layer) = "requests" THEN status < 400
    ELSE 200 <= status /\ status < 300

\* AuthResponse(**response.json()) on a response that was let through
AuthResponseOutcome(body) ==
    CASE body.json.type = "text" -> MkOutcome("JSONDecodeError", NotANumber,
                                              NoDetails)
      [] body.json.type = "array" -> MkOutcome("TypeError", NotANumber,
                                               NoDetails)
      [] body.json.access_token = None ->
           MkOutcome("pydantic.ValidationError", NotANumber, NoDetails)
      [] OTHER -> MkOutcome("return", NotANumber, NoDetails)

\* what a layer makes of a response
OnResponse(layer, status, body) ==
    IF Passes(layer, status)
    THEN IF layer \in RefreshLayers
         THEN AuthResponseOutcome(body)
         ELSE MkOutcome("return", NotANumber, NoDetails)
    ELSE IF layer \in HandlerLayers
         THEN raise_api_error(status, body)
         ELSE InlineRaise(layer, status, body)

\* the except clauses around the send.  httpx: ConnectTimeout, ReadTimeout,
\* then NetworkError (ConnectError, ReadError, ...) and RemoteProtocolError;
\* nothing else is caught.  requests: ConnectTimeout, ReadTimeout, then
\* RequestException, the base of all the others.
OnTransportFailure(layer, exc) ==
    LET kind ==
          CASE exc \in {"ConnectTimeout", "ReadTimeout"} ->
                 "AppliftingSDKTimeoutError"
            [] Library(layer) = "requests" -> "AppliftingSDKNetworkError"
            [] exc \in {"ConnectError", "ReadError", "RemoteProtocolError"} ->
                 "AppliftingSDKNetworkError"
            [] OTHER -> exc
    IN MkOutcome(kind, NotANumber, NoDetails)

\* a response or a transport failure about to be handled by a layer
ResponseInputs ==
    [stage : {"response"}, layer : Layers, status : Statuses, body : Bodies]

FailureInputs ==
    { [stage |-> "failure", layer |-> l, exc |-> e] :
        l \in Layers, e \in TransportFailures("httpx")
                            \cup TransportFailures("requests") }

InitErrors ==
    /\ InitManager /\ refresh_token = "rt" /\ cache = PlainFile("missing")
    /\ er \in ResponseInputs
              \cup {f \in FailureInputs :
                      f.exc \in TransportFailures(Library(f.layer))}
    /\ rq = Idle /\ cl = Idle /\ writer = Idle

\* the layer handles the response
HandleResponse ==
    /\ er.stage = "response"
    /\ er' = [stage |-> "handled", input |-> er,
              out |-> OnResponse(er.layer, er.status, er.body)]
    /\ UNCHANGED <<manager, rq, cl, writer>>

\* the send raised and the layer's except clauses ran
HandleFailure ==
    /\ er.stage = "failure"
    /\ er' = [stage |-> "handled", input |-> er,
              out |-> OnTransportFailure(er.layer, er.exc)]
    /\ UNCHANGED <<manager, rq, cl, writer>>

NextErrors == HandleResponse \/ HandleFailure

SpecErrors == InitErrors /\ [][NextErrors]_vars

\* a response has been handled, a failed send has been handled
Responded == er.stage = "handled" /\ er.input.stage = "response"

Failed == er.stage = "handled" /\ er.input.stage = "failure"

\* the error kind the status code alone stands for
KindByStatus(status) ==
    CASE status = 400 -> "BadRequestError"
      [] status = 401 -> "AuthenticationError"
      [] status = 403 -> "PermissionDenied"
      [] status = 404 -> "NotFoundError"
      [] status = 409 -> "ConflictError"
      [] status = 422 -> "ValidationFailed"
      [] status = 429 -> "RateLimitError"
      [] status \in 500..599 -> "ServerError"
      [] OTHER -> "APIError"

Is2xx(status) == status \in 200..299

\* C22: status mapping on a failed refresh.  Every non-2xx response of the
\* auth endpoint makes the token manager raise the error kind its status
\* stands for (400 BadRequestError, 401 AuthenticationError, 403
\* PermissionDenied, 404 NotFoundError, 409 ConflictError, 422
\* ValidationFailed, 429 RateLimitError, 5xx ServerError, anything else
\* APIError), carrying that status code.
C22_RefreshStatusMapping ==
    (Responded /\ er.input.layer \in RefreshLayers
       /\ ~Is2xx(er.input.status))
    => /\ er.out.kind = KindByStatus(er.input.status)
       /\ er.out.status_code = er.input.status

\* the token manager that client.py pairs with a base client
ManagerOf(layer) ==
    IF layer = "SyncBaseClient" THEN "SyncTokenManager"
    ELSE "AsyncTokenManager"

\* C23: one status mapping for both layers.  For every status on which the
\* token manager's refresh raises by status, a base client's _request
\* answered with the same response raises the same error kind.
C23_SameMappingInBothLayers ==
    (Responded /\ er.input.layer \in RequestLayers
       /\ ~Is2xx(er.input.status)
       /\ ~Passes(ManagerOf(er.input.layer), er.input.status))
    => er.out.kind
         = OnResponse(ManagerOf(er.input.layer), er.input.status,
                      er.input.body).kind

\* C24: transport failures are always translated.  Every failure of the send
\* (connect, read or any other timeout, connection failure, protocol
\* error), in the refresh POST and in _request alike, reaches the caller as
\* AppliftingSDKTimeoutError when it is a timeout and as
\* AppliftingSDKNetworkError otherwise; no exception of the HTTP library gets
\* through.
C24_TransportFailuresTranslated ==
    Failed
    => er.out.kind = IF IsTimeout(er.input.exc)
                     THEN "AppliftingSDKTimeoutError"
                     ELSE "AppliftingSDKNetworkError"

\* the body is a JSON object with a `detail` list of {loc, msg, type}
\* entries, sent as application/json
MatchesValidationShape(body) ==
    /\ body.ctype_json /\ body.json.type = "object"
    /\ body.json.has_detail /\ ValidationShape(body.json)

\* the body is not a JSON object, or its `detail` is not such a list
NotValidationShape(body) ==
    body.json.type # "object" \/ ~ValidationShape(body.json)

\* C25: a 422 always raises ValidationFailed.  Its details are the
\* structured list of {loc, msg, type} entries when the body has that shape,
\* and None when the body is not a JSON object or does not have the shape;
\* no other exception comes out of a 422.
C25_ValidationFailedDetails ==
    (Responded /\ er.input.status = 422)
    => /\ er.out.kind = "ValidationFailed"
       /\ MatchesValidationShape(er.input.body)
          => er.out.details = ValidationDetails(er.input.body.json)
       /\ NotValidationShape(er.input.body) => er.out.details = NoDetails

(* --------------------------- the request layer -------------------------- *)

\* the headers a caller of _request passes: none, or its own
NoHeaders == [n \in {} |-> ""]

CallerHeaders == {NoHeaders, [n \in {"Custom"} |-> "header"]}

\* the refresh token sent in place of the access token
SentHeaders_refresh(token, headers) ==
    [n \in {"Bearer"} \cup DOMAIN headers |->
        IF n \in DOMAIN headers THEN headers[n] ELSE refresh_token]

\* auth_headers = {"Bearer": token}; auth_headers.update(headers)
SentHeaders(token, headers) ==
    [n \in {"Bearer"} \cup DOMAIN headers |->
        IF n \in DOMAIN headers THEN headers[n] ELSE token]

\* what comes back from the send: a response or a timeout
SendResults ==
    [stage : {"response"}, status : {200, 404, 500},
     body : {[json |-> MkJson("object", FALSE, FALSE, <<>>, None),
              ctype_json |-> TRUE]}]
    \cup [stage : {"failure"}, exc : {"ConnectTimeout", "ReadTimeout"}]

\* a base client before its first _request
NewClient(layer) ==
    [stage |-> "ready", layer |-> layer, caller |-> NoHolder, started |-> 0,
     headers |-> NoHeaders, sends |-> 0, sent |-> NoHeaders, out |-> "none"]

InitRequest ==
    /\ InitManager
    /\ rq \in {NewClient(l) : l \in RequestLayers}
    /\ er = Idle /\ cl = Idle /\ writer = Idle

\* _request is entered: requests are made one after the other, each by the
\* next caller of the token manager
RequestStart(c, h) ==
    /\ rq.stage \in {"ready", "returned", "raised"}
    /\ pc[c] = "new" /\ \A d \in Callers : d < c => pc[d] # "new"
    /\ rq' = [rq EXCEPT !.stage = "token", !.caller = c,
                        !.started = @ + 1, !.headers = h, !.sends = 0,
                        !.sent = NoHeaders, !.out = "none"]
    /\ UNCHANGED <<manager, er, cl, writer>>

\* token = self._token_manager.get_access_token()
TokenCall ==
    /\ rq.stage = "token"
    /\ \E c \in Callers :
         /\ c = rq.caller
         /\ \/ Call(c)
            \/ Acquire(c)
            \/ Enter(c)
            \/ \E o \in Outcomes, w \in WriteOutcomes :
                  RefreshComplete(c, o, w)

\* get_access_token raised: the exception leaves _request before the send
RequestAbort ==
    /\ rq.stage = "token" /\ pc[rq.caller] = "done"
    /\ last.kind = "error"
    /\ rq' = [rq EXCEPT !.stage = "raised", !.out = last.val]
    /\ UNCHANGED <<manager, er, cl, writer>>

\* the headers are built and the request sent; a transport failure or an
\* error status raises, anything else returns the response
RequestSend(r) ==
    /\ rq.stage = "token" /\ pc[rq.caller] = "done"
    /\ last.kind = "token"
    /\ LET out == IF r.stage = "failure"
                  THEN OnTransportFailure(rq.layer, r.exc)
                  ELSE OnResponse(rq.layer, r.status, r.body)
       IN rq' = [rq EXCEPT !.stage = IF out.kind = "return" THEN "returned"
                                     ELSE "raised",
                           !.sends = @ + 1,
                           !.sent = SentHeaders(last.val, rq.headers),
                           !.out = out.kind]
    /\ UNCHANGED <<manager, er, cl, writer>>

NextRequest ==
    \/ \E c \in Callers, h \in CallerHeaders : RequestStart(c, h)
    \/ TokenCall
    \/ RequestAbort
    \/ \E r \in SendResults : RequestSend(r)
    \/ \E d \in Deltas : Tick(d)

\* one base client making its requests through one token manager
SpecRequest == InitRequest /\ [][NextRequest]_vars

\* the calls of get_access_token made so far
TokenCalls == Cardinality({c \in Callers : pc[c] # "new"})

AfterRefreshFailure ==
    /\ last.kind = "error" /\ last.posts = 1
    /\ last.val \in {"AppliftingSDKTimeoutError", "AppliftingSDKNetworkError",
                     "APIError"}

\* neither the memory nor the cache file holds a token that is still usable
\* by the expiry it was issued or cached with
TokenSpent ==
    /\ ~Truthy(access_token) \/ IsTokenExpired(now, own_expires_at)
    /\ \/ cache.kind \in {"missing", "unreadable", "empty", "nonjson"}
       \/ /\ cache.kind = "object"
          /\ \/ ~Truthy(cache.access_token)
             \/ /\ cache.expires_at # NotANumber
                /\ IsTokenExpired(now, cache.expires_at)

\* C27: recovery.  A refresh failure is not remembered: the next call made
\* with a refresh token configured and no usable token left sends a new
\* POST, and when the endpoint answers with a token that call returns it.
C27_Recovery ==
    [][\A c \in Callers :
        /\ (EnterStep(c) /\ AfterRefreshFailure /\ HasRefreshToken
              /\ TokenSpent)
           => /\ pc'[c] = "post"
              /\ posts' = posts + 1
        /\ (FinishStep(c) /\ pc[c] = "post" /\ AfterRefreshFailure
              /\ last'.outcome \in {"ok", "ok_expires_in"}
              /\ last'.val # "OSError")
           => /\ last'.kind = "token"
              /\ last'.val = ServerToken(posts)]_vars

\* caller 2 was blocked on the lock during caller 1's call, which is the
\* only call finished so far: caller 2 started while the lock was held, and
\* only caller 1 had started before it
BlockedBehindFirst ==
    /\ pc[1] = "done" /\ pc[2] = "locked" /\ contention
    /\ \A c \in Callers : c > 2 => pc[c] = "new"

\* C30: blocked callers observe the refresh's outcome.  A caller that was
\* blocked on the lock while another caller's refresh was in progress
\* returns the refreshed token with no POST of its own when that refresh
\* succeeded, and raises that same failure, again with no POST of its own,
\* when it failed.
C30_BlockedCallersShareOutcome ==
    [][(EnterStep(2) /\ BlockedBehindFirst /\ last.posts = 1)
       => /\ (last.kind = "token"
                /\ ~IsTokenExpired(now, token_expires_at))
             => /\ pc'[2] = "done" /\ last'.kind = "token"
                /\ last'.val = last.val /\ posts' = posts
          /\ last.outcome \in FailedOutcomes
             => /\ pc'[2] = "done" /\ last'.kind = "error"
                /\ last'.val = last.val /\ posts' = posts]_vars

(* ------------------------- AppliftingSDKClient -------------------------- *)

HttpLibraries == {"httpx", "requests"}

\* http_backend as passed to the constructor
BackendArgs == {None, "httpx", "requests"}

\* __init__, lines 30-43: the backend chosen from the argument and the
\* module's httpx and requests globals, or RuntimeError
SelectBackend(http_backend, have_httpx, have_requests) ==
    LET chosen == IF http_backend # None THEN http_backend
                  ELSE IF have_httpx THEN "httpx"
                  ELSE IF have_requests THEN "requests"
                  ELSE "RuntimeError"
    IN IF chosen = "httpx" /\ ~have_httpx THEN "RuntimeError"
       ELSE IF chosen = "requests" /\ ~have_requests THEN "RuntimeError"
       ELSE chosen

\* every operation allowed in both modes
Allowed_anymode(op, is_async) == TRUE

\* the mode checks of __enter__, close, __aenter__ and aclose
Allowed(op, is_async) ==
    CASE op \in {"with", "close"} -> ~is_async
      [] op \in {"async with", "aclose"} -> is_async

\* a program about to import applifting_sdk.client and construct a client:
\* the libraries installed and the http_backend it will pass
NewProgram(installed, arg) ==
    [stage |-> "start", installed |-> installed, arg |-> arg,
     have_httpx |-> FALSE, have_requests |-> FALSE,
     backend |-> None, is_async |-> FALSE, built |-> 0,
     closes |-> 0, ops |-> 0, op |-> "none", out |-> "none"]

InitClient ==
    /\ InitManager /\ refresh_token = "rt" /\ cache = PlainFile("missing")
    /\ cl \in {NewProgram(i, a) : i \in SUBSET HttpLibraries,
                                  a \in BackendArgs}
    /\ er = Idle /\ rq = Idle /\ writer = Idle

\* the module is imported.  Lines 2-4 import the token managers, the base
\* clients and the resources, whose modules import httpx and requests at
\* their top; only then come the guarded imports of lines 6-14
ClientImport ==
    /\ cl.stage = "start"
    /\ cl' = IF cl.installed = HttpLibraries
             THEN [cl EXCEPT !.stage = "imported",
                             !.have_httpx = "httpx" \in cl.installed,
                             !.have_requests = "requests" \in cl.installed]
             ELSE [cl EXCEPT !.stage = "failed", !.out = "ImportError"]
    /\ UNCHANGED <<manager, er, rq, writer>>

\* AppliftingSDKClient(refresh_token, http_backend)
ClientInit ==
    /\ cl.stage = "imported"
    /\ LET b == SelectBackend(cl.arg, cl.have_httpx, cl.have_requests)
       IN cl' = IF b = "RuntimeError"
                THEN [cl EXCEPT !.stage = "failed", !.out = "RuntimeError"]
                ELSE [cl EXCEPT !.stage = "ready", !.backend = b,
                                !.is_async = (b = "httpx"),
                                !.built = 1, !.out = "ok"]
    /\ UNCHANGED <<manager, er, rq, writer>>

\* `with client:` or `async with client:` is entered: __enter__ or
\* __aenter__ runs, and when it raises there is no exit
ContextEnter(op) ==
    /\ cl.stage = "ready" /\ cl.ops < MaxOps
    /\ op \in {"with", "async with"}
    /\ cl' = IF Allowed(op, cl.is_async)
             THEN [cl EXCEPT !.stage = "inside", !.ops = @ + 1, !.op = op,
                             !.out = "ok"]
             ELSE [cl EXCEPT !.ops = @ + 1, !.op = op,
                             !.out = "RuntimeError"]
    /\ UNCHANGED <<manager, er, rq, writer>>

\* the body ends, normally or with an exception, and __exit__ or __aexit__
\* closes the underlying client; __exit__ returns None, so the body's
\* exception goes on
ContextExit(body_raises) ==
    /\ cl.stage = "inside"
    /\ cl' = [cl EXCEPT !.stage = "ready", !.closes = @ + 1,
                        !.op = "exit",
                        !.out = IF body_raises THEN "BodyError" ELSE "ok"]
    /\ UNCHANGED <<manager, er, rq, writer>>

\* client.close() or await client.aclose()
ClientClose(op) ==
    /\ cl.stage = "ready" /\ cl.ops < MaxOps
    /\ op \in {"close", "aclose"}
    /\ cl' = IF Allowed(op, cl.is_async)
             THEN [cl EXCEPT !.closes = @ + 1, !.ops = @ + 1, !.op = op,
                             !.out = "ok"]
             ELSE [cl EXCEPT !.ops = @ + 1, !.op = op,
                             !.out = "RuntimeError"]
    /\ UNCHANGED <<manager, er, rq, writer>>

NextClient ==
    \/ ClientImport
    \/ ClientInit
    \/ \E op \in {"with", "async with"} : ContextEnter(op)
    \/ \E b \in BOOLEAN : ContextExit(b)
    \/ \E op \in {"close", "aclose"} : ClientClose(op)

\* a program that imports the module, constructs a client and uses it
SpecClient == InitClient /\ [][NextClient]_vars

\* the operation belongs to the other mode
WrongMode(op, is_async) ==
    \/ is_async /\ op \in {"with", "close"}
    \/ ~is_async /\ op \in {"async with", "aclose"}

\* C28: mode enforcement.  On a client of the httpx backend `with` entry and
\* close() raise RuntimeError, on a client of the requests backend
\* `async with` entry and aclose() raise RuntimeError, and neither closes the
\* underlying client or enters the context; the context manager of the
\* client's own mode closes the underlying client exactly once on exit,
\* also when the body raised.
C28_ModeEnforcement ==
    [][/\ (cl'.ops = cl.ops + 1 /\ WrongMode(cl'.op, cl.is_async))
          => /\ cl'.out = "RuntimeError"
             /\ cl'.closes = cl.closes
             /\ cl'.stage = cl.stage
       /\ (cl'.ops = cl.ops + 1 /\ ~WrongMode(cl'.op, cl.is_async))
          => /\ cl'.out = "ok"
             /\ cl'.closes = cl.closes
                             + (IF cl'.op \in {"close", "aclose"} THEN 1
                                ELSE 0)
       /\ (cl.stage = "inside" /\ cl'.stage # "inside")
          => /\ cl'.closes = cl.closes + 1
             /\ cl.op = (IF cl.is_async THEN "async with" ELSE "with")]_vars

\* a requests client refused `async with` and aclose(), then went through
\* `with` with a raising body: one close
C28_Witness ==
    /\ cl.stage = "ready" /\ cl.backend = "requests"
    /\ cl.ops = 3 /\ cl.closes = 1
    /\ cl.op = "exit" /\ cl.out = "BodyError"

\* what the selection rule gives for the libraries installed
ExpectedBackend(installed, arg) ==
    CASE arg = None /\ "httpx" \in installed -> "httpx"
      [] arg = None /\ "requests" \in installed -> "requests"
      [] arg = None -> "RuntimeError"
      [] arg \in installed -> arg
      [] OTHER -> "RuntimeError"

\* C29: backend selection.  With http_backend unspecified the client uses
\* httpx when it is installed, otherwise requests, otherwise RuntimeError;
\* a requested backend that is not installed raises RuntimeError before any
\* token manager or HTTP client is constructed; is_async is true exactly
\* for the httpx backend.
C29_BackendSelection ==
    cl.stage \in {"failed", "ready", "inside"}
    => LET e == ExpectedBackend(cl.installed, cl.arg)
       IN IF e = "RuntimeError"
          THEN cl.out = "RuntimeError" /\ cl.built = 0
          ELSE /\ cl.stage # "failed" /\ cl.backend = e
               /\ cl.is_async = (e = "httpx")

(* ------------------------- the in-memory fields ------------------------- *)

\* the step writes access_token or expires_at
WritesFields ==
    access_token' # access_token \/ token_expires_at' # token_expires_at

\* C31: writes under the lock.  Every step that changes the in-memory
\* access_token or expires_at is a step of the caller that holds the lock at
\* that moment; nothing writes either field outside the critical section.
C31_WritesUnderLock ==
    [][WritesFields
       => \E c \in Callers :
             /\ lock = c /\ Inside(c)
             /\ pc'[c] # pc[c]
             /\ \A d \in Callers \ {c} : pc'[d] = pc[d]]_vars

\* a second refresh is in flight under the lock, a caller waits for it, and
\* the fields hold what the first refresh wrote
C31_Witness ==
    \E c, d \in Callers :
        /\ lock = c /\ pc[c] = "post" /\ pc[d] = "waiting"
        /\ posts = 2 /\ access_token = ServerToken(1)
        /\ token_expires_at = token_expiration_seconds

\* C32: both fields are updated together.  Whenever no caller holds the
\* lock, the in-memory pair is the initial (None, 0), or access_token
\* together with the expiry it was issued or cached with.
C32_FieldsUpdatedTogether ==
    lock = NoHolder
    => IF access_token = None
       THEN token_expires_at = 0
       ELSE token_expires_at = own_expires_at

(* ------------------- two instances sharing the cache file --------------- *)

\* another instance's _write_token_cache is between open() and close()
MidWrite == writer # Idle

\* the other instance's open(path, "w"): the file is truncated.  The entry
\* it is about to dump carries the expiry of its own refresh, just done
ExternalOpen ==
    /\ writer = Idle
    /\ writer' = [stage |-> "open", entry |-> ExternalEntry(now)]
    /\ cache' = PlainFile("empty")
    /\ ext_writes' = TRUE
    /\ UNCHANGED <<refresh_token, access_token, token_expires_at, lock, pc,
                   now, posts, ticks, own_expires_at, start_valid,
                   contention, trace, last, returned, raised, er, rq, cl>>

\* the other instance's buffer is flushed part of the way: the file holds
\* a prefix of the dump
ExternalFlush ==
    /\ writer # Idle /\ writer.stage = "open"
    /\ cache.kind = "empty"
    /\ writer' = [writer EXCEPT !.stage = "flushed"]
    /\ cache' = PlainFile("nonjson")
    /\ UNCHANGED <<refresh_token, access_token, token_expires_at, lock, pc,
                   now, posts, ticks, ext_writes, own_expires_at,
                   start_valid, contention, trace, last, returned, raised,
                   er, rq, cl>>

\* the other instance's write lands and the file is closed.  Its bytes go
\* to the start of the file: when this manager wrote an entry since the
\* open and that entry is the longer one, its tail stays behind the new
\* entry (over); otherwise the file is the other instance's entry
ExternalClose(over) ==
    /\ writer # Idle
    /\ over => cache.kind = "object"
    /\ cache' = IF over THEN PlainFile("nonjson") ELSE writer.entry
    /\ writer' = Idle
    /\ UNCHANGED <<refresh_token, access_token, token_expires_at, lock, pc,
                   now, posts, ticks, ext_writes, own_expires_at,
                   start_valid, contention, trace, last, returned, raised,
                   er, rq, cl>>

\* a fresh deployment: no cache file yet
InitRace ==
    /\ Init
    /\ cache = PlainFile("missing")
    /\ refresh_token \in {None, "rt"}

NextRace ==
    \/ Next
    \/ ExternalOpen
    \/ ExternalFlush
    \/ \E over \in BOOLEAN : ExternalClose(over)

\* one manager, and another instance writing the shared cache file in the
\* steps of _write_token_cache
SpecRace == InitRace /\ [][NextRace]_vars

\* the file as a reader finds it part-way through the other instance's
\* write: truncated, or holding a prefix of the dump
PartWritten == MidWrite /\ cache.kind \in {"empty", "nonjson"}

\* C33: partial-write tolerance.  A caller that misses in memory and reads
\* the cache file while another instance is part-way through writing it
\* raises no error of reading or parsing the file, leaves access_token and
\* expires_at as they were, and goes on to the refresh: one POST when a
\* refresh token is configured, the refresh's own error when none is.
C33_PartialWriteIsMiss ==
    [][\A c \in Callers :
         /\ PartWritten
         /\ pc[c] = "locked" /\ pc'[c] # "locked"
         /\ TokenCheck(access_token, token_expires_at, now) = "miss"
         => /\ access_token' = access_token
            /\ token_expires_at' = token_expires_at
            /\ IF HasRefreshToken
               THEN /\ pc'[c] = "post"
                    /\ posts' = posts + 1
                    /\ trace'[c].seen = cache.kind
               ELSE /\ pc'[c] = "done"
                    /\ last'.kind = "error"
                    /\ last'.val = "AppliftingSDKError"
                    /\ posts' = posts]_vars

\* a caller read the file between the other instance's open and close and
\* is now waiting for the answer to its refresh POST
C33_Witness ==
    \E c \in Callers :
        /\ PartWritten
        /\ pc[c] = "post"
        /\ trace[c].seen \in {"empty", "nonjson"}
        /\ trace[c].reads = 1 /\ trace[c].posts = 1
        /\ access_token = trace[c].tok0

\* the file holds the entry this manager wrote at its last refresh
OwnEntryInFile ==
    /\ Truthy(access_token)
    /\ cache = WrittenFile(access_token, token_expires_at)

\* C34: shared cache across instances.  When the other instance's write
\* completes after this manager's own, the file holds exactly the other
\* instance's complete entry; when this manager's write completes with no
\* other write in progress, the file holds its entry; and a caller that
\* then misses in memory and finds the entry before its buffered expiry
\* returns the entry's token without a POST.
C34_LastWriterWins ==
    [][/\ (MidWrite /\ writer' = Idle /\ OwnEntryInFile)
          => cache' = writer.entry
       /\ (~MidWrite /\ cache' # cache /\ writer' = writer)
          => cache' = WrittenFile(access_token', token_expires_at')
       /\ \A c \in Callers :
            /\ ~MidWrite /\ ext_writes
            /\ pc[c] = "locked" /\ pc'[c] # "locked"
            /\ TokenCheck(access_token, token_expires_at, now) = "miss"
            /\ cache.kind = "object"
            /\ TokenCheck(cache.access_token, cache.expires_at, now) = "hit"
            => /\ pc'[c] = "done"
               /\ last'.kind = "token"
               /\ last'.val = cache.access_token
               /\ posts' = posts]_vars

(* ----------------------- the two token managers ------------------------ *)

\* the refresh stored a token: the fields are assigned and the cache file
\* is written; every other outcome raises before the assignments
Stores(out) == out.kind = "return"

\* C35: the sync and the async token manager are one state machine.  For
\* the same answer of the auth endpoint the two take the same decision:
\* SyncTokenManager stores the token and writes the cache exactly when
\* AsyncTokenManager does, and raises the same error when it does not.
C35_SameStateMachine ==
    (Responded /\ er.input.layer = "SyncTokenManager")
    => LET async == OnResponse("AsyncTokenManager", er.input.status,
                               er.input.body)
       IN /\ Stores(er.out) <=> Stores(async)
          /\ er.out = async

(* ------------------- a 2xx answer without access_token ------------------ *)

\* the exception classes the SDK defines: AppliftingSDKError and its
\* subclasses (APIError stands for itself and its subclasses by status)
SDKErrors ==
    {"AppliftingSDKError", "AppliftingSDKNetworkError",
     "AppliftingSDKTimeoutError", "APIError"}

\* C36: a 2xx answer of the auth endpoint whose body has no access_token
\* makes the call raise one of the SDK's own exception classes, with
\* access_token and expires_at as they were when the call entered and the
\* cache file not written.
C36_BadBodyRaisesSdkError ==
    [][\A c \in Callers :
          (FinishStep(c) /\ last'.outcome = "bad_body")
          => /\ last'.kind = "error"
             /\ last'.val \in SDKErrors
             /\ access_token' = last'.tok0
             /\ token_expires_at' = last'.exp0
             /\ last'.writes = 0
             /\ cache' = cache]_vars

(* ------------------------- the token in memory -------------------------- *)

\* C37: the in-memory access_token, once set, is never null again, and it
\* changes only in two ways: a caller's refresh succeeded and stored the
\* token of its POST, or a caller adopted the token of the cache entry it
\* read.
C37_TokenMonotonic ==
    [][/\ access_token # None => access_token' # None
       /\ access_token' # access_token
          => \E c \in Callers :
                /\ lock = c
                /\ \/ /\ pc[c] = "post"
                      /\ access_token' = ServerToken(trace[c].post_id)
                      /\ ~RefreshRaises(last'.outcome)
                      /\ last'.path = "refresh"
                   \/ /\ pc[c] = "locked"
                      /\ access_token' = cache.access_token
                      /\ last'.path = "cache"]_vars

\* a token in memory was replaced by the token of a later refresh
C37_Witness ==
    /\ last.path = "refresh"
    /\ Truthy(last.tok0)
    /\ access_token = last.val /\ access_token # last.tok0
    /\ last.posts = 1

(* --------------------------- the cache file ----------------------------- *)

\* C38: the cache file is written only after a successful refresh.  A call
\* that returns from memory, returns from the cache, or fails in the
\* refresh leaves the file as it was; the file changes only in the step in
\* which a caller's POST was answered with a token, and then to the entry
\* of that token.
C38_WriteOnlyAfterRefresh ==
    [][/\ \A c \in Callers :
            (FinishStep(c)
               /\ \/ last'.path \in {"memory", "cache"}
                  \/ last'.outcome \in FailedOutcomes
                  \/ last'.val = "AppliftingSDKError")
            => cache' = cache /\ last'.writes = 0
       /\ cache' # cache
          => \E c \in Callers :
                /\ lock = c /\ pc[c] = "post" /\ pc'[c] = "done"
                /\ last'.path = "refresh"
                /\ last'.outcome \notin FailedOutcomes
                /\ cache' = WrittenFile(access_token', token_expires_at')]_vars

\* a call failed in its refresh with an entry in the cache file, which is
\* still there
C38_Witness ==
    /\ last.kind = "error"
    /\ last.outcome \in FailedOutcomes
    /\ last.posts = 1 /\ last.writes = 0
    /\ HasCacheEntry

(* ------------------------------ progress -------------------------------- *)

\* what runs a call forward: the thread or task that holds the lock runs
\* its critical section, the POST is answered or fails, and the lock is
\* fair: a caller that can take the lock again and again does take it
Fairness ==
    /\ \A c \in Callers : WF_vars(Enter(c))
    /\ \A c \in Callers :
          WF_vars(\E o \in Outcomes, w \in WriteOutcomes :
                      RefreshComplete(c, o, w))
    /\ \A c \in Callers : SF_vars(Acquire(c))

\* a manager with its refresh token, started with no cache file
InitLive ==
    /\ Init
    /\ refresh_token = "rt"
    /\ cache = PlainFile("missing")

\* the manager with its callers scheduled
SpecLive == InitLive /\ [][Next]_vars /\ Fairness

\* C39: progress.  With every POST answered in the end and a fair lock, a
\* caller waiting for the lock gets it, and every call that has started
\* returns or raises.
C39_Progress ==
    \A c \in Callers :
        /\ pc[c] = "waiting" ~> pc[c] = "locked"
        /\ pc[c] \in {"waiting", "locked", "post"} ~> pc[c] = "done"

\* every caller is through, and one of them had found the lock taken
C39_Witness ==
    /\ \A c \in Callers : pc[c] = "done"
    /\ contention
    /\ lock = NoHolder

(* ------------------------ the credential header ------------------------- *)

\* headers a caller of _request may pass (Dict[str, Any]): those of
\* CallerHeaders, or a Bearer entry of its own
AnyHeaders == CallerHeaders \cup {[n \in {"Bearer"} |-> "forged"]}

NextHeaders ==
    \/ \E c \in Callers, h \in AnyHeaders : RequestStart(c, h)
    \/ TokenCall
    \/ RequestAbort
    \/ \E r \in SendResults : RequestSend(r)
    \/ \E d \in Deltas : Tick(d)

\* one base client making its requests with any headers
SpecHeaders == InitRequest /\ [][NextHeaders]_vars

\* C40: the Bearer header of a request that was sent is the token
\* get_access_token returned for it, whatever headers the caller passed;
\* the caller's headers are added next to it.
C40_BearerIsToken ==
    rq.sends = 1
    => /\ rq.sent["Bearer"] = last.val
       /\ DOMAIN rq.sent = {"Bearer"} \cup DOMAIN rq.headers
       /\ \A n \in DOMAIN rq.headers \ {"Bearer"} :
             rq.sent[n] = rq.headers[n]

====
